---- MODULE Spec2Model ----
(***************************************************************************)
(* Model of the garage door module (src/garagedoor.py).                    *)
(*                                                                         *)
(* The class GarageDoor keeps, per virtual garage door (VGD), a map of     *)
(* pending control requests, a map from the pulse-stop message id back to  *)
(* the request, and a map of reactor timers.  Its entry points are the     *)
(* message handler `message` (status messages, command returns, new        *)
(* commands), the hook `_device_command_`, the start hook `_start_` (which  *)
(* runs set_garage_door_status) and the reactor callbacks sendProcessing,  *)
(* sendFailed, cleanUpcontrolRequestsPending, cleanUprequestsMessagesOrig  *)
(* and the delayed pulse-stop send.                                        *)
(*                                                                         *)
(* Conventions of the model                                                *)
(*  - a status is its machine_status, written as a string: "0" closed,     *)
(*    ".5" neither, "1" open; a command's status is the one _set_status    *)
(*    gives it.                                                            *)
(*  - the maps the handlers use (controlRequestsPending,                   *)
(*    requestsMessagesOrig, garageInputDevices) are the maps _init_ and    *)
(*    _reload_ create (control_requests_pending, garageClosedDevices);     *)
(*    the input sensor of garage d is addressed by d.                      *)
(*  - calls into the framework (set_status, get_message, send, command,    *)
(*    getReply) succeed; what the module does with its own maps is         *)
(*    modelled as written, including lookups that raise.                   *)
(*  - reactor time is discrete; every delayed call carries the number of   *)
(*    ticks left.  As in the reactor's loop, the delayed calls that are    *)
(*    due run before the next message is handled and before time passes.   *)
(*  - the k-th command message has id k, and the pulse-stop message built  *)
(*    for it has msgUUID k.                                                *)
(***************************************************************************)
EXTENDS Integers, Sequences, FiniteSets, TLC

VARIABLES
    device_variables,        \* d -> device variables the framework holds for the VGD
    garageDevices,           \* d -> configuration kept by _reload_
    garageStatus,            \* d -> status_history[0] of the VGD
    closedStatus,            \* d -> status_history[0] of the closed input sensor
    controlRequestsPending,  \* d -> [message, messageOrig]
    requestsMessagesOrig,    \* msgUUID -> [message, garageDeviceUUID]
    pendingTimers,           \* msgUUID -> handle of a delayed call
    timers,                  \* the reactor's delayed calls
    received_commands,       \* request ids stored by _device_command_
    msgs,                    \* the command messages received so far
    replies,                 \* per command message: replies sent to its caller
    actuator,                \* per command message: commands sent to the control device
    alerts,                  \* number of alerts raised
    started                  \* _start_ has run

vars == <<device_variables, garageDevices, garageStatus, closedStatus, controlRequestsPending,
          requestsMessagesOrig, pendingTimers, timers, received_commands,
          msgs, replies, actuator, alerts, started>>

trackerVars == <<controlRequestsPending, requestsMessagesOrig, pendingTimers,
                 timers, received_commands, msgs, replies, actuator, alerts>>

(***************************************************************************)
(* Bounds                                                                  *)
(***************************************************************************)
MaxCmds == 2
MaxAcks == 1

(***************************************************************************)
(* Program constants.  The delays are in ticks and keep the order of the   *)
(* program's delays, not their scale: the pulse time (milliseconds) and    *)
(* the 0.99 s of the first notice are one tick, the 60 s of the failure    *)
(* timer two, the 1200 s of the clean-up four, so that the failure timer   *)
(* armed by the first notice runs out before the clean-up.                 *)
(***************************************************************************)
MachineClosed == "0"
MachineHalf == ".5"
MachineOpen == "1"
PulseTime == 1
SlowDelay == 1
FailDelay == 2
Ceiling == 4

Devices == {"g1", "g2"}
garageCommands == {"open", "close"}
SensorVals == {MachineClosed, MachineOpen}
StatusVals == {MachineClosed, MachineHalf, MachineOpen}
Details == {"offline", "busy"}
None == "None"

MsgIds == 1..MaxCmds

(***************************************************************************)
(* Dictionary helpers                                                      *)
(***************************************************************************)
EmptyMap == [x \in {} |-> 0]
Put(f, k, v) == [x \in (DOMAIN f) \cup {k} |-> IF x = k THEN v ELSE f[x]]
Remove(f, k) == [x \in (DOMAIN f) \ {k} |-> f[x]]
Range(f) == {f[x] : x \in DOMAIN f}

\* _set_status: machine_status of a command
CmdStatus(c) == IF c = "open" THEN MachineOpen ELSE MachineClosed

(***************************************************************************)
(* Reactor: delayed calls.  A delayed call is                              *)
(* [h: handle, fn: callback, id: message id, left: ticks left]; h is 0 for *)
(* a call whose handle the module does not keep.                           *)
(***************************************************************************)
Active(tm, h) == \E t \in tm : t.h = h
Cancel(tm, h) == {t \in tm : t.h # h}
callLater(tm, h, fn, id, delay) ==
    tm \cup {[h |-> h, fn |-> fn, id |-> id, left |-> delay]}
UsedHandles(pt, tm) == {t.h : t \in tm} \cup Range(pt) \cup {0}
NewHandle(pt, tm) ==
    CHOOSE n \in 1..(Cardinality(UsedHandles(pt, tm)) + 1) :
        /\ n \notin UsedHandles(pt, tm)
        /\ \A m \in 1..(n - 1) : m \in UsedHandles(pt, tm)

\* mutant of deleteTimer: the timer is forgotten but not cancelled
deleteTimerNoCancel(pt, tm, timerid) ==
    IF timerid \in DOMAIN pt /\ Active(tm, pt[timerid])
    THEN [pt |-> Remove(pt, timerid), tm |-> tm]
    ELSE [pt |-> pt, tm |-> tm]

\* deleteTimer: cancel and forget the timer kept under timerid, if it is active
deleteTimer(pt, tm, timerid) ==
    IF timerid \in DOMAIN pt /\ Active(tm, pt[timerid])
    THEN [pt |-> Remove(pt, timerid), tm |-> Cancel(tm, pt[timerid])]
    ELSE [pt |-> pt, tm |-> tm]

\* no delayed call is due: the reactor turns to its messages
Idle == \A t \in timers : t.left > 0

(***************************************************************************)
(* Outputs                                                                 *)
(***************************************************************************)
Reply(rp, m, outcome, detail) ==
    [rp EXCEPT ![m] = Append(@, <<outcome, detail>>)]
Actuate(ac, m, what) == [ac EXCEPT ![m] = Append(@, what)]

(***************************************************************************)
(* _reload_: the device variables of every VGD are validated, and the VGD  *)
(* is kept only if they all pass.  A device variable is the string the     *)
(* user entered.  _reload_ always leaves openDevice at None (the statement *)
(* after the open device lookup raises and the except branch resets it).   *)
(***************************************************************************)
GarageData(cc, co) ==
    [closedStateClosed |-> cc, closedStateOpened |-> co,
     openDevice |-> None, openStateOpened |-> None]

\* the commands the control device knows, and the input devices that exist
ValidCommands == {"on", "off"}
KnownDevices == {"sensor"}
validate_command(c) == c \in ValidCommands

\* float(): the strings it converts, with their values; it raises on any other
Numerals == ("500" :> 500) @@ ("30" :> 30) @@ ("0" :> 0) @@ ("-1" :> (0 - 1))

DeviceVariables(cc, co) ==
    [controlpulsestart |-> "on", controlpulseend |-> "off",
     controlpulsetime |-> "500", autoclosetime |-> "30",
     closeddevice |-> "sensor", closedstateclosed |-> cc, closedstateopened |-> co]

\* lines 96-130: the tests after which the loop does not `continue`
Kept(v) ==
    /\ validate_command(v.controlpulsestart)
    /\ validate_command(v.controlpulseend)
    /\ v.controlpulsetime \in DOMAIN Numerals
    /\ Numerals[v.controlpulsetime] > 0
    /\ v.autoclosetime \in DOMAIN Numerals
    /\ v.closeddevice \in KnownDevices

\* lines 94-187: garageDevices after the loop over the module's devices
reload(dv) ==
    [d \in {x \in DOMAIN dv : Kept(dv[x])} |->
        GarageData(dv[d].closedstateclosed, dv[d].closedstateopened)]

(***************************************************************************)
(* Initial state: after _init_ and _reload_.  The statuses are the ones    *)
(* the framework kept for the devices.                                     *)
(***************************************************************************)
InitTracker ==
    /\ controlRequestsPending = EmptyMap
    /\ requestsMessagesOrig = EmptyMap
    /\ pendingTimers = EmptyMap
    /\ timers = {}
    /\ received_commands = {}
    /\ msgs = <<>>
    /\ replies = <<>>
    /\ actuator = <<>>
    /\ alerts = 0
    /\ started = FALSE

Init ==
    /\ device_variables = [d \in Devices |-> DeviceVariables(MachineClosed, MachineOpen)]
    /\ garageDevices = reload(device_variables)
    /\ garageStatus \in [Devices -> SensorVals]
    /\ closedStatus \in [Devices -> SensorVals]
    /\ InitTracker

(***************************************************************************)
(* set_garage_door_status (the reconciler), called by _start_.             *)
(* The result is the status it sets, the value it returns and whether it   *)
(* called set_status.                                                      *)
(***************************************************************************)
set_garage_door_status(garage, garage_state, closed_reading, open_reading) ==
    LET closed_state == garage.closedStateClosed
        open_dev == IF garage.openDevice # None THEN open_reading ELSE closed_reading
        open_state == IF garage.openDevice # None
                      THEN garage.openStateOpened
                      ELSE garage.closedStateOpened
    IN  IF closed_reading = closed_state /\ garage_state # closed_state
        THEN [status |-> closed_reading, ret |-> closed_state, emitted |-> TRUE]
        ELSE IF open_dev = open_state /\ garage_state # open_state
        THEN [status |-> open_dev, ret |-> open_state, emitted |-> TRUE]
        ELSE [status |-> MachineHalf, ret |-> None, emitted |-> TRUE]

Reconciled(d) ==
    set_garage_door_status(garageDevices[d], garageStatus[d], closedStatus[d], None)

\* _start_: reconcile every garage
Start ==
    /\ ~started
    /\ started' = TRUE
    /\ garageStatus' = [d \in Devices |->
                            IF d \in DOMAIN garageDevices
                            THEN Reconciled(d).status
                            ELSE garageStatus[d]]
    /\ UNCHANGED <<device_variables, garageDevices, closedStatus>>
    /\ UNCHANGED trackerVars

\* _stop_: does nothing; the framework may start the module again
Stop ==
    /\ started
    /\ started' = FALSE
    /\ UNCHANGED <<device_variables, garageDevices, garageStatus, closedStatus>>
    /\ UNCHANGED trackerVars

(***************************************************************************)
(* message(): a new command for garage d                                   *)
(***************************************************************************)
NewMsg(d, c, via, admit) == [device |-> d, cmd |-> c, via |-> via, admit |-> admit]

\* mutant of Managed: every device is taken for one of the module's garages
AlwaysManaged(d) == TRUE

\* lines 273 and 389: the device is one of the garages _reload_ kept
Managed(d) == d \in DOMAIN garageDevices

\* lines 275 and 391: the handler returns; nothing is sent
Discard(m) ==
    /\ replies' = Append(replies, <<>>)
    /\ actuator' = Append(actuator, <<>>)

\* mutants of the two admission tests: the test is left out
NeverPending(d) == FALSE
NeverSatisfied(d, c) == FALSE

\* line 438: a request for this garage is pending
AlreadyPending(d) == d \in DOMAIN controlRequestsPending

\* line 445: the garage is in the requested position
AlreadySatisfied(d, c) == CmdStatus(c) = garageStatus[d]

\* lines 440-442: the reply is built, and its send method is named but not called
RejectPending(m) == replies' = Append(replies, <<>>)

\* lines 452-456
ReplySatisfied(m) ==
    replies' = Append(replies, << <<"done", "already">> >>)

\* mutant of Begin: the pulse stop is not scheduled
BeginNoStop(d, m) ==
    LET h == NewHandle(pendingTimers, timers)
        t2 == callLater(timers, h, "sendProcessing", m, SlowDelay)
        t3 == callLater(t2, 0, "cleanPending", m, Ceiling)
        t4 == callLater(t3, 0, "cleanOrig", m, Ceiling)
    IN  /\ controlRequestsPending' =
              Put(controlRequestsPending, d, [message |-> m, messageOrig |-> m])
        /\ requestsMessagesOrig' =
              Put(requestsMessagesOrig, m, [message |-> m, garageDeviceUUID |-> d])
        /\ actuator' = Append(actuator, <<"start">>)
        /\ pendingTimers' = Put(pendingTimers, m, h)
        /\ timers' = t4
        /\ replies' = Append(replies, <<>>)

\* lines 461-488
Begin(d, m) ==
    LET h == NewHandle(pendingTimers, timers)
        t1 == callLater(timers, 0, "pulseStop", m, PulseTime)
        t2 == callLater(t1, h, "sendProcessing", m, SlowDelay)
        t3 == callLater(t2, 0, "cleanPending", m, Ceiling)
        t4 == callLater(t3, 0, "cleanOrig", m, Ceiling)
    IN  /\ controlRequestsPending' =
              Put(controlRequestsPending, d, [message |-> m, messageOrig |-> m])
        /\ requestsMessagesOrig' =
              Put(requestsMessagesOrig, m, [message |-> m, garageDeviceUUID |-> d])
        /\ actuator' = Append(actuator, <<"start">>)
        /\ pendingTimers' = Put(pendingTimers, m, h)
        /\ timers' = t4
        /\ replies' = Append(replies, <<>>)

MsgCommand(d, c) ==
    /\ started
    /\ Idle
    /\ Len(msgs) < MaxCmds
    /\ c \in garageCommands
    /\ LET m == Len(msgs) + 1 IN
       IF ~Managed(d)
       THEN /\ msgs' = Append(msgs, NewMsg(d, c, "message", "discarded"))
            /\ Discard(m)
            /\ UNCHANGED <<controlRequestsPending, requestsMessagesOrig,
                           pendingTimers, timers>>
       ELSE IF AlreadyPending(d)
       THEN /\ msgs' = Append(msgs, NewMsg(d, c, "message", "pending"))
            /\ RejectPending(m)
            /\ actuator' = Append(actuator, <<>>)
            /\ UNCHANGED <<controlRequestsPending, requestsMessagesOrig,
                           pendingTimers, timers>>
       ELSE IF AlreadySatisfied(d, c)
       THEN /\ msgs' = Append(msgs, NewMsg(d, c, "message", "satisfied"))
            /\ ReplySatisfied(m)
            /\ actuator' = Append(actuator, <<>>)
            /\ UNCHANGED <<controlRequestsPending, requestsMessagesOrig,
                           pendingTimers, timers>>
       ELSE /\ msgs' = Append(msgs, NewMsg(d, c, "message", "accepted"))
            /\ Begin(d, m)
    /\ UNCHANGED <<device_variables, garageDevices, garageStatus, closedStatus, received_commands,
                   alerts, started>>

(***************************************************************************)
(* _device_command_(): the command hook                                    *)
(***************************************************************************)
\* line 297: the closed input sensor is not in the requested state
SensorDiffers(d, c) == closedStatus[d] # CmdStatus(c)

DeviceCommand(d, c) ==
    /\ started
    /\ Idle
    /\ Len(msgs) < MaxCmds
    /\ c \in garageCommands
    /\ LET m == Len(msgs) + 1 IN
       IF ~Managed(d)
       THEN /\ msgs' = Append(msgs, NewMsg(d, c, "hook", "discarded"))
            /\ Discard(m)
            /\ UNCHANGED <<received_commands, timers, garageStatus>>
       ELSE
       /\ received_commands' = received_commands \cup {m}
       /\ IF AlreadyPending(d)
          THEN \* line 291 looks the request id up in the pending map, which holds
               \* garage ids: the lookup raises before the failure is reported
               /\ msgs' = Append(msgs, NewMsg(d, c, "hook", "pending"))
               /\ replies' = Append(replies, <<>>)
               /\ actuator' = Append(actuator, <<>>)
               /\ UNCHANGED <<timers, garageStatus>>
          ELSE IF SensorDiffers(d, c)
          THEN /\ msgs' = Append(msgs, NewMsg(d, c, "hook", "accepted"))
               /\ actuator' = Append(actuator, <<"start">>)
               /\ timers' = callLater(timers, 0, "pulseStop", m, PulseTime)
               /\ replies' = Append(replies, << <<"pending", "moving">> >>)
               /\ UNCHANGED garageStatus
          ELSE /\ msgs' = Append(msgs, NewMsg(d, c, "hook", "satisfied"))
               /\ replies' = Append(replies, << <<"done", "already">> >>)
               /\ actuator' = Append(actuator, <<>>)
               /\ garageStatus' = [garageStatus EXCEPT ![d] = CmdStatus(c)]
               /\ UNCHANGED timers
    /\ UNCHANGED <<device_variables, garageDevices, closedStatus, controlRequestsPending,
                   requestsMessagesOrig, pendingTimers, alerts, started>>

(***************************************************************************)
(* message(): a status message from the closed input sensor of garage d    *)
(***************************************************************************)
\* mutant of ResolveByStatus: the correlation entry and the timer are kept
ResolveByStatusKeep(d) ==
    LET p == controlRequestsPending[d]
    IN  /\ replies' = Reply(replies, p.message, "done", "confirmed")
        /\ pendingTimers' = pendingTimers
        /\ timers' = timers
        /\ requestsMessagesOrig' = requestsMessagesOrig
        /\ controlRequestsPending' = Remove(controlRequestsPending, d)

\* lines 356-372: answer the pending request and clean up
ResolveByStatus(d) ==
    LET p == controlRequestsPending[d]
        dt == deleteTimer(pendingTimers, timers, p.messageOrig)
    IN  /\ replies' = Reply(replies, p.message, "done", "confirmed")
        /\ pendingTimers' = dt.pt
        /\ timers' = dt.tm
        /\ requestsMessagesOrig' = Remove(requestsMessagesOrig, p.messageOrig)
        /\ controlRequestsPending' = Remove(controlRequestsPending, d)

MsgStatus(d, s) ==
    /\ started
    /\ Idle
    /\ d \in DOMAIN garageDevices
    /\ closedStatus' = [closedStatus EXCEPT ![d] = s]
    /\ garageStatus' = [garageStatus EXCEPT ![d] = s]
    /\ IF d \in DOMAIN controlRequestsPending
       THEN ResolveByStatus(d)
       ELSE UNCHANGED <<replies, pendingTimers, timers, requestsMessagesOrig,
                        controlRequestsPending>>
    /\ UNCHANGED <<device_variables, garageDevices, received_commands, msgs, actuator, alerts, started>>

(***************************************************************************)
(* sendProcessing and sendFailed                                           *)
(***************************************************************************)
\* lines 490-497, on the delayed calls tm; raises when msgUUID is not tracked
sendProcessing(msgUUID, extra, tm) ==
    IF msgUUID \notin DOMAIN requestsMessagesOrig
    THEN /\ timers' = tm
         /\ UNCHANGED <<replies, pendingTimers>>
    ELSE LET dt == deleteTimer(pendingTimers, tm, msgUUID)
             h == NewHandle(Remove(dt.pt, msgUUID), dt.tm)
         IN  /\ replies' = Reply(replies, requestsMessagesOrig[msgUUID].message,
                                 "processing", extra)
             /\ pendingTimers' = Put(dt.pt, msgUUID, h)
             /\ timers' = callLater(dt.tm, h, "sendFailed", msgUUID, FailDelay)

\* lines 499-511, on the delayed calls tm; raises when msgUUID is not tracked
sendFailed(msgUUID, tm) ==
    IF msgUUID \notin DOMAIN requestsMessagesOrig
    THEN /\ timers' = tm
         /\ UNCHANGED <<replies, pendingTimers, requestsMessagesOrig,
                        controlRequestsPending>>
    ELSE LET o == requestsMessagesOrig[msgUUID]
             dt == deleteTimer(pendingTimers, tm, msgUUID)
         IN  /\ controlRequestsPending' = Remove(controlRequestsPending, o.garageDeviceUUID)
             /\ requestsMessagesOrig' = Remove(requestsMessagesOrig, msgUUID)
             /\ pendingTimers' = dt.pt
             /\ timers' = dt.tm
             /\ replies' = Reply(replies, o.message, "failed", "timeout")

(***************************************************************************)
(* message(): a command return for the pulse-stop message u                *)
(***************************************************************************)
\* the number of returns forwarded to the caller of m as processing
Acks(m) == Cardinality({i \in 1..Len(replies[m]) :
                           replies[m][i] = <<"processing", "moving garage">>})

\* mutant of AckFailed: the correlation entry is left behind
AckFailedLeak(u, st, detail) ==
    LET o == requestsMessagesOrig[u]
        dt == deleteTimer(pendingTimers, timers, u)
    IN  /\ pendingTimers' = dt.pt
        /\ timers' = dt.tm
        /\ replies' = Reply(replies, o.message, st, detail)
        /\ controlRequestsPending' = Remove(controlRequestsPending, o.garageDeviceUUID)
        /\ requestsMessagesOrig' = requestsMessagesOrig

\* lines 415-427: the control device reports something else than done or processing
AckFailed(u, st, detail) ==
    LET o == requestsMessagesOrig[u]
        dt == deleteTimer(pendingTimers, timers, u)
    IN  /\ pendingTimers' = dt.pt
        /\ timers' = dt.tm
        /\ replies' = Reply(replies, o.message, st, detail)
        /\ controlRequestsPending' = Remove(controlRequestsPending, o.garageDeviceUUID)
        /\ requestsMessagesOrig' = Remove(requestsMessagesOrig, u)

\* mutant of MsgAck: a done return is taken for the end of the request
MsgAckDoneResolves(u, st, detail) ==
    /\ started
    /\ Idle
    /\ u \in DOMAIN requestsMessagesOrig
    /\ IF st = "processing"
       THEN /\ Acks(requestsMessagesOrig[u].message) < MaxAcks
            /\ sendProcessing(u, "moving garage", timers)
            /\ UNCHANGED <<requestsMessagesOrig, controlRequestsPending>>
       ELSE AckFailed(u, st, detail)
    /\ UNCHANGED <<device_variables, garageDevices, garageStatus, closedStatus,
                   received_commands, msgs, actuator, alerts, started>>

MsgAck(u, st, detail) ==
    /\ started
    /\ Idle
    /\ u \in DOMAIN requestsMessagesOrig
    /\ IF st \in {"done", "processing"}
       THEN /\ Acks(requestsMessagesOrig[u].message) < MaxAcks
            /\ sendProcessing(u, "moving garage", timers)
            /\ UNCHANGED <<requestsMessagesOrig, controlRequestsPending>>
       ELSE AckFailed(u, st, detail)
    /\ UNCHANGED <<device_variables, garageDevices, garageStatus, closedStatus, received_commands,
                   msgs, actuator, alerts, started>>

(***************************************************************************)
(* The reactor                                                             *)
(***************************************************************************)
Tick ==
    /\ timers # {}
    /\ Idle
    /\ timers' = {[t EXCEPT !.left = @ - 1] : t \in timers}
    /\ UNCHANGED <<device_variables, garageDevices, garageStatus, closedStatus, controlRequestsPending,
                   requestsMessagesOrig, pendingTimers, received_commands, msgs,
                   replies, actuator, alerts, started>>

Due(t, fn) == t \in timers /\ t.fn = fn /\ t.left = 0


\* mutant of FirePulseStop: the delayed call runs but the message is not sent
FirePulseStopLost(t) ==
    /\ Due(t, "pulseStop")
    /\ timers' = timers \ {t}
    /\ actuator' = actuator
    /\ UNCHANGED <<device_variables, garageDevices, garageStatus, closedStatus,
                   controlRequestsPending, requestsMessagesOrig, pendingTimers,
                   received_commands, msgs, replies, alerts, started>>

\* the delayed send of the pulse-stop message
FirePulseStop(t) ==
    /\ Due(t, "pulseStop")
    /\ timers' = timers \ {t}
    /\ actuator' = Actuate(actuator, t.id, "stop")
    /\ UNCHANGED <<device_variables, garageDevices, garageStatus, closedStatus, controlRequestsPending,
                   requestsMessagesOrig, pendingTimers, received_commands, msgs,
                   replies, alerts, started>>

FireSendProcessing(t) ==
    /\ Due(t, "sendProcessing")
    /\ sendProcessing(t.id, "pending results", timers \ {t})
    /\ UNCHANGED <<device_variables, garageDevices, garageStatus, closedStatus, controlRequestsPending,
                   requestsMessagesOrig, received_commands, msgs, actuator, alerts,
                   started>>

FireSendFailed(t) ==
    /\ Due(t, "sendFailed")
    /\ sendFailed(t.id, timers \ {t})
    /\ UNCHANGED <<device_variables, garageDevices, garageStatus, closedStatus, received_commands,
                   msgs, actuator, alerts, started>>

\* mutant of FireCleanPending: the clean-up empties the map of pending requests
FireCleanPendingAll(t) ==
    /\ Due(t, "cleanPending")
    /\ timers' = timers \ {t}
    /\ controlRequestsPending' = EmptyMap
    /\ UNCHANGED <<device_variables, garageDevices, garageStatus, closedStatus,
                   requestsMessagesOrig, pendingTimers, received_commands, msgs,
                   replies, actuator, alerts, started>>

\* cleanUpcontrolRequestsPending(garage id of message t.id)
FireCleanPending(t) ==
    /\ Due(t, "cleanPending")
    /\ timers' = timers \ {t}
    /\ controlRequestsPending' = Remove(controlRequestsPending, msgs[t.id].device)
    /\ UNCHANGED <<device_variables, garageDevices, garageStatus, closedStatus, requestsMessagesOrig,
                   pendingTimers, received_commands, msgs, replies, actuator, alerts,
                   started>>

\* cleanUprequestsMessagesOrig(t.id); scheduled after, so run after, the call above
FireCleanOrig(t) ==
    /\ Due(t, "cleanOrig")
    /\ ~\E t2 \in timers : t2.fn = "cleanPending" /\ t2.id = t.id
    /\ timers' = timers \ {t}
    /\ requestsMessagesOrig' = Remove(requestsMessagesOrig, t.id)
    /\ UNCHANGED <<device_variables, garageDevices, garageStatus, closedStatus, controlRequestsPending,
                   pendingTimers, received_commands, msgs, replies, actuator, alerts,
                   started>>

Next ==
    \/ Start
    \/ \E d \in Devices, c \in garageCommands : MsgCommand(d, c)
    \/ \E d \in Devices, c \in garageCommands : DeviceCommand(d, c)
    \/ \E d \in Devices, s \in SensorVals : MsgStatus(d, s)
    \/ \E u \in MsgIds, st \in {"done", "processing", "failed"}, detail \in Details :
          MsgAck(u, st, detail)
    \/ Tick
    \/ \E t \in timers : FirePulseStop(t)
    \/ \E t \in timers : FireSendProcessing(t)
    \/ \E t \in timers : FireSendFailed(t)
    \/ \E t \in timers : FireCleanPending(t)
    \/ \E t \in timers : FireCleanOrig(t)

Spec == Init /\ [][Next]_vars

(***************************************************************************)
(* The reconciler on its own: a closed sensor wired either way round, any  *)
(* readings, and the module started and stopped any number of times.       *)
(***************************************************************************)
Wirings == {GarageData(MachineClosed, MachineOpen), GarageData(MachineOpen, MachineClosed)}

InitReconcile ==
    /\ garageDevices \in [Devices -> Wirings]
    /\ device_variables =
          [d \in Devices |-> DeviceVariables(garageDevices[d].closedStateClosed,
                                             garageDevices[d].closedStateOpened)]
    /\ garageStatus \in [Devices -> StatusVals]
    /\ closedStatus \in [Devices -> StatusVals]
    /\ InitTracker

NextReconcile ==
    \/ Start
    \/ Stop
    \/ \E d \in Devices, s \in StatusVals : MsgStatus(d, s)

SpecReconcile == InitReconcile /\ [][NextReconcile]_vars

(***************************************************************************)
(* Loading: every garage comes with device variables that are right or     *)
(* have one entry wrong, and then receives commands.                       *)
(***************************************************************************)
Good == DeviceVariables(MachineClosed, MachineOpen)

LoadVariables ==
    {Good,
     [Good EXCEPT !.controlpulsestart = "bogus"],
     [Good EXCEPT !.controlpulseend = "bogus"],
     [Good EXCEPT !.controlpulsetime = "abc"],
     [Good EXCEPT !.controlpulsetime = "0"],
     [Good EXCEPT !.controlpulsetime = "-1"],
     [Good EXCEPT !.autoclosetime = ""],
     [Good EXCEPT !.closeddevice = "nosuch"]}

InitLoad ==
    /\ device_variables \in [Devices -> LoadVariables]
    /\ garageDevices = reload(device_variables)
    /\ garageStatus \in [Devices -> SensorVals]
    /\ closedStatus \in [Devices -> SensorVals]
    /\ InitTracker

NextLoad ==
    \/ Start
    \/ \E d \in Devices, c \in garageCommands : MsgCommand(d, c)
    \/ \E d \in Devices, c \in garageCommands : DeviceCommand(d, c)
    \/ Tick
    \/ \E t \in timers : FirePulseStop(t)
    \/ \E t \in timers : FireSendProcessing(t)
    \/ \E t \in timers : FireSendFailed(t)
    \/ \E t \in timers : FireCleanPending(t)
    \/ \E t \in timers : FireCleanOrig(t)

SpecLoad == InitLoad /\ [][NextLoad]_vars

(***************************************************************************)
(* The reactor at work: the garages start with the status of their closed  *)
(* sensor; time passes and every delayed call that is due is run.          *)
(***************************************************************************)
InitPulse ==
    /\ device_variables = [d \in Devices |-> Good]
    /\ garageDevices = reload(device_variables)
    /\ closedStatus \in [Devices -> SensorVals]
    /\ garageStatus = closedStatus
    /\ InitTracker

ReactorRuns ==
    /\ WF_vars(Tick)
    /\ WF_vars(\E t \in timers : FirePulseStop(t))
    /\ WF_vars(\E t \in timers : FireSendProcessing(t))
    /\ WF_vars(\E t \in timers : FireSendFailed(t))
    /\ WF_vars(\E t \in timers : FireCleanPending(t))
    /\ WF_vars(\E t \in timers : FireCleanOrig(t))

NextPulse ==
    \/ Start
    \/ \E d \in Devices, c \in garageCommands : MsgCommand(d, c)
    \/ \E d \in Devices, c \in garageCommands : DeviceCommand(d, c)
    \/ \E d \in Devices, s \in SensorVals : MsgStatus(d, s)
    \/ \E u \in MsgIds, st \in {"processing", "failed"} : MsgAck(u, st, "offline")
    \/ Tick
    \/ \E t \in timers : FirePulseStop(t)
    \/ \E t \in timers : FireSendProcessing(t)
    \/ \E t \in timers : FireSendFailed(t)
    \/ \E t \in timers : FireCleanPending(t)
    \/ \E t \in timers : FireCleanOrig(t)

SpecPulse == InitPulse /\ [][NextPulse]_vars /\ ReactorRuns

(***************************************************************************)
(* Vocabulary of the properties                                            *)
(***************************************************************************)
Msgs == 1..Len(msgs)
Outcomes(m) == {replies[m][i][1] : i \in 1..Len(replies[m])}
Terminal(m) == {i \in 1..Len(replies[m]) : replies[m][i][1] \in {"done", "failed"}}
TimersOf(m, fns) == {t \in timers : t.id = m /\ t.fn \in fns}
\* this step handles a new command
CommandStep == Len(msgs') = Len(msgs) + 1
NewCommand == msgs'[Len(msgs')]
TrackerUntouched ==
    /\ controlRequestsPending' = controlRequestsPending
    /\ requestsMessagesOrig' = requestsMessagesOrig
    /\ pendingTimers' = pendingTimers
    /\ timers' = timers

(***************************************************************************)
(* C1: at most one pending request exists per garage, and a command that   *)
(* arrives while one exists for its garage is rejected: it actuates        *)
(* nothing and leaves the pending request, its correlation entry and the   *)
(* timers as they were.                                                    *)
(***************************************************************************)
OnePendingPerDevice ==
    \A d \in DOMAIN controlRequestsPending :
        /\ msgs[controlRequestsPending[d].message].device = d
        /\ \A e \in DOMAIN controlRequestsPending :
              controlRequestsPending[e].message = controlRequestsPending[d].message
                  => e = d

RejectedWhilePending ==
    (CommandStep /\ NewCommand.device \in DOMAIN controlRequestsPending)
        => /\ NewCommand.admit = "pending"
           /\ actuator'[Len(msgs')] = <<>>
           /\ TrackerUntouched

C2_PendingReplySent ==
    \A m \in Msgs : msgs[m].admit = "pending"
                       => /\ "failed" \in Outcomes(m)
                          /\ actuator[m] = <<>>

(***************************************************************************)
(* C3: a command whose target is the garage's current status, with no      *)
(* request pending, is answered done (already satisfied), emits no         *)
(* actuator command and creates no pending request, correlation entry or   *)
(* timer.                                                                  *)
(***************************************************************************)
SatisfiedStep ==
    (/\ CommandStep
     /\ NewCommand.device \notin DOMAIN controlRequestsPending
     /\ CmdStatus(NewCommand.cmd) = garageStatus[NewCommand.device])
        => /\ NewCommand.admit = "satisfied"
           /\ replies'[Len(msgs')] = << <<"done", "already">> >>
           /\ actuator'[Len(msgs')] = <<>>
           /\ TrackerUntouched

C3_AlreadySatisfied == [][SatisfiedStep]_vars

C3_Witness ==
    \E m \in Msgs : /\ msgs[m].admit = "satisfied"
                    /\ msgs[m].via = "message"
                    /\ actuator[m] = <<>>

(***************************************************************************)
(* C4: an accepted command sends exactly two commands to the control       *)
(* device: the pulse start at admission, then the pulse stop once the      *)
(* pulse time has passed; nothing else is sent for the request.            *)
(***************************************************************************)
PulseShape ==
    \A m \in Msgs :
        IF msgs[m].admit = "accepted"
        THEN \/ /\ actuator[m] = <<"start">>
                /\ Cardinality(TimersOf(m, {"pulseStop"})) = 1
             \/ /\ actuator[m] = <<"start", "stop">>
                /\ TimersOf(m, {"pulseStop"}) = {}
        ELSE actuator[m] = <<>> /\ TimersOf(m, {"pulseStop"}) = {}

PulseStartStep ==
    (CommandStep /\ NewCommand.admit = "accepted")
        => /\ actuator'[Len(msgs')] = <<"start">>
           /\ \E t \in timers' : /\ t.fn = "pulseStop"
                                 /\ t.id = Len(msgs')
                                 /\ t.left = PulseTime

PulseStopStep ==
    \A m \in Msgs :
        (Len(actuator'[m]) > Len(actuator[m]))
            => \E t \in timers : t.fn = "pulseStop" /\ t.id = m /\ t.left = 0

C4_TwoActuatorCommands ==
    []PulseShape /\ [][PulseStartStep /\ PulseStopStep]_vars

C4_Witness ==
    \E m \in Msgs : /\ msgs[m].admit = "accepted"
                    /\ msgs[m].via = "message"
                    /\ actuator[m] = <<"start", "stop">>

(***************************************************************************)
(* C5: a pending request is answered done only by a sensor status after    *)
(* which the garage's status is the request's target; a status message     *)
(* that leaves the garage in another state answers nothing and keeps the   *)
(* pending request.                                                        *)
(***************************************************************************)
Target(m) == CmdStatus(msgs[m].cmd)
AnsweredDone(m) == /\ "done" \notin Outcomes(m)
                   /\ Len(replies'[m]) = Len(replies[m]) + 1
                   /\ replies'[m][Len(replies'[m])][1] = "done"

DoneOnlyOnTarget ==
    \A m \in Msgs :
        /\ AnsweredDone(m) => garageStatus'[msgs[m].device] = Target(m)
        /\ (/\ msgs[m].device \in DOMAIN controlRequestsPending
            /\ controlRequestsPending[msgs[m].device].message = m
            /\ garageStatus'[msgs[m].device] # Target(m))
              => /\ msgs[m].device \in DOMAIN controlRequestsPending'
                 /\ ~AnsweredDone(m)

C5_DoneOnlyOnTarget == [][DoneOnlyOnTarget]_vars

(***************************************************************************)
(* C6: when the failure timer of an accepted command runs out without a    *)
(* sensor update, a failed reply is sent to the caller, exactly one alert  *)
(* is raised and the pending request is removed.                           *)
(***************************************************************************)
TimeoutStep ==
    \A t \in timers :
        (FireSendFailed(t) /\ t.id \in DOMAIN requestsMessagesOrig)
            => /\ replies'[t.id] = Append(replies[t.id], <<"failed", "timeout">>)
               /\ alerts' = alerts + 1
               /\ msgs[t.id].device \notin DOMAIN controlRequestsPending'

C6_TimeoutFailsWithAlert == [][TimeoutStep]_vars

(***************************************************************************)
(* C7: a failed return for a tracked pulse-stop message is answered at     *)
(* once with a failed reply carrying the detail of the return; no alert is *)
(* raised, the request's timer is cancelled and the pending request and    *)
(* its correlation entry are removed, so no timeout reply follows.         *)
(***************************************************************************)
FailedByAck(m) ==
    \E i \in 1..Len(replies[m]) :
        replies[m][i][1] = "failed" /\ replies[m][i][2] \in Details

AckFailedStep ==
    \A u \in DOMAIN requestsMessagesOrig, detail \in Details :
        MsgAck(u, "failed", detail)
            => LET o == requestsMessagesOrig[u] IN
               /\ replies'[o.message] = Append(replies[o.message], <<"failed", detail>>)
               /\ alerts' = alerts
               /\ TimersOf(u, {"sendProcessing", "sendFailed"})' = {}
               /\ u \notin DOMAIN pendingTimers'
               /\ u \notin DOMAIN requestsMessagesOrig'
               /\ o.garageDeviceUUID \notin DOMAIN controlRequestsPending'

NoReplyAfterAckFailure ==
    \A m \in Msgs :
        FailedByAck(m)
            => /\ replies[m][Len(replies[m])][1] = "failed"
               /\ replies[m][Len(replies[m])][2] \in Details
               /\ Cardinality(Terminal(m)) = 1
               /\ TimersOf(m, {"sendProcessing", "sendFailed"}) = {}
               /\ alerts = 0

C7_AckFailure == []NoReplyAfterAckFailure /\ [][AckFailedStep]_vars

C7_Witness ==
    \E m \in Msgs : /\ FailedByAck(m)
                    /\ "processing" \in Outcomes(m)
                    /\ TimersOf(m, {"cleanPending"}) = {}

(***************************************************************************)
(* C8: an accepted command is never dropped without a terminal reply:      *)
(* once the module tracks it no longer (no pending request, no correlation *)
(* entry, no timer of its own), its caller has had done or failed.         *)
(***************************************************************************)
Tracked(m) ==
    \/ m \in DOMAIN requestsMessagesOrig
    \/ \E d \in DOMAIN controlRequestsPending : controlRequestsPending[d].message = m
    \/ TimersOf(m, {"sendProcessing", "sendFailed", "cleanPending", "cleanOrig"}) # {}

C8_TerminalReply ==
    \A m \in Msgs :
        (msgs[m].admit = "accepted" /\ msgs[m].via = "message" /\ ~Tracked(m))
            => Terminal(m) # {}

(***************************************************************************)
(* C9: the reconciler is idempotent: run again on the same readings it     *)
(* returns the same label and sets no status; in particular, run while the *)
(* closed sensor reads the closed value and the garage is already closed,  *)
(* it leaves the garage's status alone.                                    *)
(***************************************************************************)
ReconcileTwice ==
    Start => \A d \in Devices :
                /\ Reconciled(d)'.ret = Reconciled(d).ret
                /\ ~Reconciled(d)'.emitted
                /\ Reconciled(d)'.status = garageStatus'[d]
                /\ (/\ closedStatus[d] = garageDevices[d].closedStateClosed
                    /\ garageStatus[d] = garageDevices[d].closedStateClosed)
                      => garageStatus'[d] = garageStatus[d]

C9_ReconcileIdempotent == [][ReconcileTwice]_vars

(***************************************************************************)
(* C10: the reconciler follows the priority order: the closed sensor       *)
(* reading the closed value gives closed (position 0); otherwise the       *)
(* reading of the open sensor (the closed sensor when there is none)       *)
(* being the open value gives open (position 1); otherwise the label is    *)
(* unknown and the position stays as it was.                               *)
(***************************************************************************)
OpenReading(d) ==
    IF garageDevices[d].openDevice # None THEN None ELSE closedStatus[d]
OpenValue(d) ==
    IF garageDevices[d].openDevice # None
    THEN garageDevices[d].openStateOpened
    ELSE garageDevices[d].closedStateOpened

PriorityOrder ==
    Start => \A d \in Devices :
                IF closedStatus[d] = garageDevices[d].closedStateClosed
                THEN /\ Reconciled(d).ret = garageDevices[d].closedStateClosed
                     /\ garageStatus'[d] = MachineClosed
                ELSE IF OpenReading(d) = OpenValue(d)
                THEN /\ Reconciled(d).ret = OpenValue(d)
                     /\ garageStatus'[d] = MachineOpen
                ELSE /\ Reconciled(d).ret = None
                     /\ garageStatus'[d] = garageStatus[d]

C10_PriorityOrder == [][PriorityOrder]_vars

(***************************************************************************)
(* C11: a garage whose pulse start or pulse end command is not valid,      *)
(* whose pulse time is not a number or not positive, or whose closed       *)
(* sensor does not exist, is left out of garageDevices, and a command for  *)
(* it sends nothing to the control device and changes no state; a garage   *)
(* loaded with it whose variables are all valid is kept and has its        *)
(* commands answered, rejected or carried out as usual.                    *)
(***************************************************************************)
RequiredInvalid(v) ==
    \/ ~validate_command(v.controlpulsestart)
    \/ ~validate_command(v.controlpulseend)
    \/ v.controlpulsetime \notin DOMAIN Numerals
    \/ (v.controlpulsetime \in DOMAIN Numerals /\ Numerals[v.controlpulsetime] <= 0)
    \/ v.closeddevice \notin KnownDevices

WellConfigured(v) == ~RequiredInvalid(v) /\ v.autoclosetime \in DOMAIN Numerals

LoadExcludes ==
    \A d \in Devices :
        /\ RequiredInvalid(device_variables[d]) => d \notin DOMAIN garageDevices
        /\ WellConfigured(device_variables[d]) => d \in DOMAIN garageDevices

ExcludedCommandStep ==
    (CommandStep /\ RequiredInvalid(device_variables[NewCommand.device]))
        => /\ NewCommand.admit = "discarded"
           /\ actuator'[Len(msgs')] = <<>>
           /\ replies'[Len(msgs')] = <<>>
           /\ TrackerUntouched
           /\ UNCHANGED <<garageDevices, garageStatus, closedStatus,
                          received_commands, alerts>>

HandledCommandStep ==
    (CommandStep /\ WellConfigured(device_variables[NewCommand.device]))
        => LET d == NewCommand.device
               satisfied == IF NewCommand.via = "message"
                            THEN CmdStatus(NewCommand.cmd) = garageStatus[d]
                            ELSE CmdStatus(NewCommand.cmd) = closedStatus[d]
           IN  IF d \in DOMAIN controlRequestsPending
               THEN NewCommand.admit = "pending"
               ELSE IF satisfied
               THEN /\ NewCommand.admit = "satisfied"
                    /\ replies'[Len(msgs')] = << <<"done", "already">> >>
               ELSE /\ NewCommand.admit = "accepted"
                    /\ actuator'[Len(msgs')] = <<"start">>
                    /\ \E t \in timers' : t.fn = "pulseStop" /\ t.id = Len(msgs')

C11_InvalidConfigExcluded ==
    []LoadExcludes /\ [][ExcludedCommandStep /\ HandledCommandStep]_vars

C11_Witness ==
    \E m, n \in Msgs :
        /\ device_variables[msgs[m].device].controlpulsetime = "abc"
        /\ msgs[m].admit = "discarded"
        /\ msgs[n].device # msgs[m].device
        /\ msgs[n].admit = "accepted"
        /\ actuator[n] = <<"start", "stop">>

(***************************************************************************)
(* C12: garages are independent.  Whatever the module handles for one      *)
(* garage (a command, a sensor status, a return of the control device, a   *)
(* notice, failure or clean-up timer running out) leaves every other       *)
(* garage's pending request, correlation entry, timers and status as they  *)
(* were, and so leaves the admission of a command for the other garage as  *)
(* it was.                                                                 *)
(***************************************************************************)
Slice(b) ==
    [pending |-> IF b \in DOMAIN controlRequestsPending
                 THEN {controlRequestsPending[b]} ELSE {},
     orig    |-> {<<u, requestsMessagesOrig[u]>> :
                     u \in {x \in DOMAIN requestsMessagesOrig :
                               requestsMessagesOrig[x].garageDeviceUUID = b}},
     handles |-> {<<u, pendingTimers[u]>> :
                     u \in {x \in DOMAIN pendingTimers : msgs[x].device = b}},
     timers  |-> {t \in timers : msgs[t.id].device = b},
     status  |-> garageStatus[b],
     sensor  |-> closedStatus[b]]

EventOf(b) ==
    \/ \E c \in garageCommands : MsgCommand(b, c) \/ DeviceCommand(b, c)
    \/ \E s \in StatusVals : MsgStatus(b, s)
    \/ \E u \in DOMAIN requestsMessagesOrig :
          /\ requestsMessagesOrig[u].garageDeviceUUID = b
          /\ \E st \in {"done", "processing", "failed"}, detail \in Details :
                MsgAck(u, st, detail)
    \/ \E t \in timers :
          /\ msgs[t.id].device = b
          /\ \/ FirePulseStop(t)
             \/ FireSendProcessing(t)
             \/ FireSendFailed(t)
             \/ FireCleanPending(t)
             \/ FireCleanOrig(t)

Admission(b) ==
    [c \in garageCommands |->
        <<AlreadyPending(b), AlreadySatisfied(b, c), SensorDiffers(b, c)>>]

OthersUntouched ==
    \A b \in Devices :
        (Slice(b)' # Slice(b) \/ Admission(b)' # Admission(b))
            => (Start \/ Tick \/ EventOf(b))

C12_DevicesIndependent == [][OthersUntouched]_vars

C12_Witness ==
    \E m, n \in Msgs :
        /\ msgs[m].device # msgs[n].device
        /\ "failed" \in Outcomes(m)
        /\ TimersOf(m, {"cleanPending", "cleanOrig"}) = {}
        /\ msgs[n].admit = "accepted"
        /\ msgs[n].device \in DOMAIN controlRequestsPending
        /\ controlRequestsPending[msgs[n].device].message = n
        /\ n \in DOMAIN requestsMessagesOrig

(***************************************************************************)
(* C13: each way a request is resolved (the sensor's status, the failure   *)
(* timer, a failed return of the control device) removes the pending       *)
(* request of the garage and the correlation entry of the pulse-stop id:   *)
(* a resolved request has no entry left in either map, and once every      *)
(* accepted request is resolved both maps are empty again.                 *)
(***************************************************************************)
NoEntryOf(m) ==
    /\ \A d \in DOMAIN controlRequestsPending : controlRequestsPending[d].message # m
    /\ \A u \in DOMAIN requestsMessagesOrig : requestsMessagesOrig[u].message # m

ResolvedLeavesNothing ==
    /\ \A m \in Msgs : Terminal(m) # {} => NoEntryOf(m)
    /\ (\A m \in Msgs : (msgs[m].admit = "accepted" /\ msgs[m].via = "message")
                            => Terminal(m) # {})
          => /\ DOMAIN controlRequestsPending = {}
             /\ DOMAIN requestsMessagesOrig = {}

ResolutionStep ==
    /\ \A d \in DOMAIN controlRequestsPending, s \in StatusVals :
          MsgStatus(d, s)
              => /\ d \notin DOMAIN controlRequestsPending'
                 /\ controlRequestsPending[d].messageOrig \notin DOMAIN requestsMessagesOrig'
    /\ \A t \in timers :
          (FireSendFailed(t) /\ t.id \in DOMAIN requestsMessagesOrig)
              => /\ t.id \notin DOMAIN requestsMessagesOrig'
                 /\ requestsMessagesOrig[t.id].garageDeviceUUID
                        \notin DOMAIN controlRequestsPending'
    /\ \A u \in DOMAIN requestsMessagesOrig, detail \in Details :
          MsgAck(u, "failed", detail)
              => /\ u \notin DOMAIN requestsMessagesOrig'
                 /\ requestsMessagesOrig[u].garageDeviceUUID
                        \notin DOMAIN controlRequestsPending'

C13_ResolutionRemovesBoth == []ResolvedLeavesNothing /\ [][ResolutionStep]_vars

C13_Witness ==
    \E m, n \in Msgs :
        /\ <<"failed", "timeout">> \in Range(replies[m])
        /\ <<"done", "confirmed">> \in Range(replies[n])
        /\ DOMAIN controlRequestsPending = {}
        /\ DOMAIN requestsMessagesOrig = {}

(***************************************************************************)
(* C14: a request is resolved at most once.  Of the sensor's status, the   *)
(* failure timer and a failed return, the first handled sends the one      *)
(* terminal reply; after it the request is tracked no longer, so a later   *)
(* status, timer or return for it sends no reply and changes no map or     *)
(* timer.                                                                  *)
(***************************************************************************)
ResolvedOnce ==
    \A m \in Msgs :
        /\ Cardinality(Terminal(m)) <= 1
        /\ Terminal(m) # {}
              => /\ NoEntryOf(m)
                 /\ m \notin DOMAIN requestsMessagesOrig
                 /\ TimersOf(m, {"sendProcessing", "sendFailed"}) = {}

LaterSignalStep ==
    /\ \A m \in Msgs : Terminal(m) # {} => replies'[m] = replies[m]
    /\ \A d \in Devices, s \in StatusVals :
          (MsgStatus(d, s) /\ d \notin DOMAIN controlRequestsPending)
              => TrackerUntouched /\ replies' = replies
    /\ \A t \in timers :
          (FireSendFailed(t) /\ t.id \notin DOMAIN requestsMessagesOrig)
              => /\ replies' = replies
                 /\ controlRequestsPending' = controlRequestsPending
                 /\ requestsMessagesOrig' = requestsMessagesOrig
                 /\ pendingTimers' = pendingTimers

C14_ResolvedAtMostOnce == []ResolvedOnce /\ [][LaterSignalStep]_vars

C14_Witness ==
    /\ Len(msgs) = 1
    /\ msgs[1].admit = "accepted"
    /\ msgs[1].via = "message"
    /\ <<"failed", "timeout">> \in Range(replies[1])
    /\ garageStatus[msgs[1].device] = Target(1)
    /\ closedStatus[msgs[1].device] = Target(1)

(***************************************************************************)
(* C15: the map of pending requests and the correlation map agree in every *)
(* reachable state: a garage has a pending request exactly when one        *)
(* correlation entry names the garage, and the key of that entry is the    *)
(* pulse-stop id kept in the pending request.                              *)
(***************************************************************************)
EntriesFor(d) ==
    {u \in DOMAIN requestsMessagesOrig : requestsMessagesOrig[u].garageDeviceUUID = d}

C15_MapsConsistent ==
    \A d \in Devices :
        IF d \in DOMAIN controlRequestsPending
        THEN EntriesFor(d) = {controlRequestsPending[d].messageOrig}
        ELSE EntriesFor(d) = {}

(***************************************************************************)
(* C16: a processing or done return of the control device for a tracked    *)
(* pulse-stop id never resolves the request: the caller is sent a          *)
(* processing reply and nothing else, and the pending request and the      *)
(* correlation entry stay as they are.                                     *)
(***************************************************************************)
ProcessingAckStep ==
    \A u \in DOMAIN requestsMessagesOrig, st \in {"done", "processing"},
       detail \in Details :
        MsgAck(u, st, detail)
            => LET m == requestsMessagesOrig[u].message IN
               /\ replies' = [replies EXCEPT
                                 ![m] = Append(@, <<"processing", "moving garage">>)]
               /\ requestsMessagesOrig' = requestsMessagesOrig
               /\ controlRequestsPending' = controlRequestsPending

C16_ProcessingAckKeepsRequest == [][ProcessingAckStep]_vars

C16_Witness ==
    \E m \in Msgs :
        /\ <<"processing", "moving garage">> \in Range(replies[m])
        /\ Terminal(m) = {}
        /\ m \in DOMAIN requestsMessagesOrig
        /\ msgs[m].device \in DOMAIN controlRequestsPending
        /\ controlRequestsPending[msgs[m].device].message = m

(***************************************************************************)
(* C17: a processing return of the control device never postpones the      *)
(* failure of the request: a failure timer that is running when the return *)
(* is handled still runs out at the same moment (or sooner) afterwards.    *)
(***************************************************************************)
AckKeepsDeadline ==
    \A u \in DOMAIN requestsMessagesOrig, st \in {"done", "processing"},
       detail \in Details :
        MsgAck(u, st, detail)
            => \A t \in TimersOf(u, {"sendFailed"}) :
                  \E t2 \in timers' : /\ t2.fn = "sendFailed"
                                        /\ t2.id = u
                                        /\ t2.left <= t.left

C17_AckKeepsDeadline == [][AckKeepsDeadline]_vars

(***************************************************************************)
(* C18: handling a command never sets the status of the garage: whether    *)
(* the command is accepted, rejected as pending or answered as already     *)
(* satisfied, the status is the one the sensor readings gave before.       *)
(***************************************************************************)
CommandKeepsStatus == CommandStep => garageStatus' = garageStatus

C18_StatusOnlyFromSensors == [][CommandKeepsStatus]_vars

(***************************************************************************)
(* C19: when a command has been accepted, its failure timer is already     *)
(* armed next to the timer of the first notice, so that the failure        *)
(* deadline counts from the admission.                                     *)
(***************************************************************************)
DeadlineArmedAtAdmission ==
    (CommandStep /\ NewCommand.admit = "accepted" /\ NewCommand.via = "message")
        => /\ \E t \in timers' : t.fn = "sendProcessing" /\ t.id = Len(msgs')
           /\ \E t \in timers' : t.fn = "sendFailed" /\ t.id = Len(msgs')

C19_DeadlineArmedAtAdmission == [][DeadlineArmedAtAdmission]_vars

(***************************************************************************)
(* C20: once a request is resolved, no timer armed for it is left: the     *)
(* timer of the first notice, the failure timer and the two clean-up       *)
(* timers have all been cancelled or have run.                             *)
(***************************************************************************)
C20_ResolutionCancelsTimers ==
    \A m \in Msgs :
        (msgs[m].admit = "accepted" /\ Terminal(m) # {})
            => TimersOf(m, {"sendProcessing", "sendFailed",
                            "cleanPending", "cleanOrig"}) = {}

(***************************************************************************)
(* C21: the pending request is registered before the pulse start is sent:  *)
(* in every reachable state where the pulse start of an accepted command   *)
(* has been sent and the command has had no terminal reply, a pending      *)
(* request exists for its garage, so that a command arriving then is       *)
(* rejected.                                                               *)
(***************************************************************************)
C21_PendingBeforePulse ==
    \A m \in Msgs :
        (msgs[m].admit = "accepted" /\ Len(actuator[m]) > 0 /\ Terminal(m) = {})
            => AlreadyPending(msgs[m].device)

(***************************************************************************)
(* C22: the clean-up armed for one request never removes the pending       *)
(* request of a later request for the same garage: when it runs while      *)
(* another request is pending for the garage, that request stays pending.  *)
(***************************************************************************)
StaleCleanupKeeps ==
    \A t \in timers :
        LET d == msgs[t.id].device IN
        (/\ FireCleanPending(t)
         /\ d \in DOMAIN controlRequestsPending
         /\ controlRequestsPending[d].message # t.id)
            => /\ d \in DOMAIN controlRequestsPending'
               /\ controlRequestsPending'[d] = controlRequestsPending[d]

C22_CleanupSparesLaterRequest == [][StaleCleanupKeeps]_vars

(***************************************************************************)
(* C23: no timer callback runs against a missing correlation entry: when   *)
(* sendProcessing or sendFailed is run by its timer for a pulse-stop id,   *)
(* the id is in the correlation map.                                       *)
(***************************************************************************)
CallbackFindsEntry ==
    \A t \in timers :
        (FireSendProcessing(t) \/ FireSendFailed(t))
            => t.id \in DOMAIN requestsMessagesOrig

C23_CallbackFindsEntry == [][CallbackFindsEntry]_vars

(***************************************************************************)
(* C25: while a request is pending, the timer map holds under its          *)
(* pulse-stop id exactly one live timer, the first notice or the failure   *)
(* timer; once the request is resolved the timer map has no entry for the  *)
(* id.                                                                     *)
(***************************************************************************)
LiveTimer(u) ==
    /\ u \in DOMAIN pendingTimers
    /\ Cardinality({t \in TimersOf(u, {"sendProcessing", "sendFailed"}) :
                       t.h = pendingTimers[u]}) = 1
    /\ Cardinality(TimersOf(u, {"sendProcessing", "sendFailed"})) = 1

C25_OneLiveTimer ==
    /\ \A d \in DOMAIN controlRequestsPending :
          LiveTimer(controlRequestsPending[d].messageOrig)
    /\ \A m \in Msgs :
          (msgs[m].admit = "accepted" /\ msgs[m].via = "message" /\ Terminal(m) # {})
              => m \notin DOMAIN pendingTimers

(***************************************************************************)
(* C24: the relay is never left energised: the pulse start sent for an     *)
(* accepted command is eventually followed by its pulse stop, also when    *)
(* the request is resolved before the pulse time has passed.               *)
(***************************************************************************)
PulseStarted(m) ==
    m \in Msgs /\ msgs[m].admit = "accepted" /\ actuator[m] = <<"start">>
PulseStopped(m) ==
    m \in Msgs /\ actuator[m] = <<"start", "stop">>

C24_PulseStopFollows ==
    \A m \in MsgIds : PulseStarted(m) ~> PulseStopped(m)

C24_Witness ==
    \E m \in Msgs :
        /\ msgs[m].admit = "accepted"
        /\ msgs[m].via = "message"
        /\ replies[m] = << <<"done", "confirmed">> >>
        /\ PulseStopped(m)

====
